---------------------------- MODULE Spec2Model ----------------------------
(***************************************************************************)
(* Blog API service of src/blogsPanel.js.  The file holds two variants of  *)
(* the same Express application: the local-disk variant (lines 1-111) and  *)
(* the Cloudinary variant (lines 113-359).  The state is the Mongo         *)
(* collection of blog documents, the attachment backend, and the requests  *)
(* in flight; a handler that awaits several external calls is one action   *)
(* per await, so that concurrent requests interleave where Node lets them. *)
(*                                                                         *)
(* Text is modelled by TLA+ strings.  JavaScript's null and undefined are  *)
(* the two reserved strings Null and Undefined.  Reads of the document     *)
(* store always answer; writes (save, findByIdAndUpdate, findByIdAndDelete)*)
(* may be rejected by the store, which the handlers turn into a 500.       *)
(***************************************************************************)
EXTENDS Integers, Sequences, FiniteSets, TLC

(* ------------------------------ bounds -------------------------------- *)
\* request slots: how many requests can be in flight at once
MaxReqs == 2
\* how many documents the collection ever gets (ObjectIds handed out)
MaxPosts == 2
\* how many files multer ever stores (ticks of Date.now())
MaxUploads == 2

(* --------------------------- JavaScript values ------------------------ *)
Null == "<null>"
Undefined == "<undefined>"

\* JavaScript truthiness of a string-or-null value: if (x), x || y, !x
Truthy(v) == v \notin {Null, Undefined, ""}

Char(s, i) == SubSeq(s, i, i)

RECURSIVE SplitFrom(_, _, _, _)
SplitFrom(s, sep, i, cur) ==
  IF i > Len(s) THEN <<cur>>
  ELSE IF Char(s, i) = sep THEN <<cur>> \o SplitFrom(s, sep, i + 1, "")
  ELSE SplitFrom(s, sep, i + 1, cur \o Char(s, i))

\* String.prototype.split with a one-character separator
Split(s, sep) == SplitFrom(s, sep, 1, "")

\* Array.prototype.slice(-n): the last n elements (all of them when fewer)
SliceLast(parts, n) ==
  IF Len(parts) <= n THEN parts ELSE SubSeq(parts, Len(parts) - n + 1, Len(parts))

RECURSIVE Join(_, _)
\* Array.prototype.join
Join(parts, sep) ==
  IF parts = <<>> THEN ""
  ELSE IF Len(parts) = 1 THEN parts[1]
  ELSE parts[1] \o sep \o Join(Tail(parts), sep)

RECURSIVE LastIndexFrom(_, _, _)
LastIndexFrom(s, c, i) ==
  IF i = 0 THEN -1
  ELSE IF Char(s, i) = c THEN i - 1
  ELSE LastIndexFrom(s, c, i - 1)

\* String.prototype.lastIndexOf: 0-based, -1 when absent
LastIndexOf(s, c) == LastIndexFrom(s, c, Len(s))

\* String.prototype.substring(0, end): a negative end counts as 0
Substring0(s, end) ==
  LET e == IF end < 0 THEN 0 ELSE IF end > Len(s) THEN Len(s) ELSE end
  IN  SubSeq(s, 1, e)

\* getPublicIdFromUrl: "<folder>/<name>" of ".../<folder>/<name>.<ext>"
getPublicIdFromUrl(url) ==
  IF ~Truthy(url) THEN Null
  ELSE LET urlParts == Split(url, "/")
           publicIdWithFolder == Join(SliceLast(urlParts, 2), "/")
       IN  Substring0(publicIdWithFolder, LastIndexOf(publicIdWithFolder, "."))

(* ------------------------------ ObjectIds ----------------------------- *)
HexChars == {"0", "1", "2", "3", "4", "5", "6", "7", "8", "9",
             "a", "b", "c", "d", "e", "f", "A", "B", "C", "D", "E", "F"}

\* the n-th ObjectId the store hands out, as the 24 hex characters of a route
Oid(n) == "65f0c0ffee0000000000000" \o ToString(n)

\* mongoose.Types.ObjectId.isValid on a route parameter: 24 hex characters
isValid(id) ==
  /\ Len(id) = 24
  /\ \A i \in 1..24 : Char(id, i) \in HexChars

\* the route parameters tried: every id the store can hand out, one well-formed
\* id it never hands out, and a malformed one
IdInputs == {Oid(n) : n \in 1..(MaxPosts + 1)} \cup {"abc"}


(* --------------------------- schema and documents --------------------- *)
\* the fields a multipart body can carry (the schema paths but _id)
BodyFields == {"title", "content", "category", "subcategory", "author",
               "status", "image", "imagePublicId"}

\* blogSchema: the paths of each variant's schema (strict mode drops the rest)
SchemaPaths(v) ==
  IF v = "disk" THEN {"title", "content", "category", "author", "image"}
  ELSE BodyFields

\* blogSchema: required: true
RequiredPaths(v) ==
  IF v = "disk" THEN {"title", "content", "category", "author"}
  ELSE {"title", "content", "category", "subcategory", "author"}

\* blogSchema: subcategory enum
SubcategoryEnum == {"Article", "Tutorial", "Interview Questions"}

\* blogSchema: status enum
StatusEnum == {"Trending", "Featured", "Editor's Pick", "Recommended", "None"}

\* a body with no field at all
NoBody == [f \in BodyFields |-> Undefined]

\* Mongoose validation of a document on save(): required strings must be
\* non-empty, enumerated strings (when set) must be members of the enum
ValidDoc(v, d) ==
  /\ \A f \in RequiredPaths(v) : Truthy(d[f])
  /\ v = "cloud" =>
       /\ d.subcategory \in {Null, Undefined} \cup SubcategoryEnum
       /\ d.status \in {Null, Undefined} \cup StatusEnum

\* new Blog({...}) of the disk variant's POST handler
NewBlogDisk(oid, body, imagePath) ==
  [_id |-> oid, title |-> body.title, content |-> body.content,
   category |-> body.category, author |-> body.author, image |-> imagePath,
   subcategory |-> Undefined, status |-> Undefined, imagePublicId |-> Undefined]

\* new Blog({...}) of the Cloudinary variant's POST handler
NewBlog(oid, body, imagePath, imagePublicId) ==
  [_id |-> oid, title |-> body.title, content |-> body.content,
   category |-> body.category, subcategory |-> body.subcategory,
   author |-> body.author, image |-> imagePath, imagePublicId |-> imagePublicId,
   status |-> IF Truthy(body.status) THEN body.status ELSE "None"]

\* a faulty findByIdAndUpdate: the update replaces the document, so a schema
\* path the update leaves out is unset
ApplyUpdateReplacing(v, d, updatedData) ==
  [f \in DOMAIN d |-> IF f \in SchemaPaths(v) THEN updatedData[f] ELSE d[f]]

\* Model.findByIdAndUpdate's $set: the update's own fields that are schema
\* paths replace the document's, every other field stays; no validator runs
ApplyUpdate(v, d, updatedData) ==
  [f \in DOMAIN d |->
     IF f \in SchemaPaths(v) /\ updatedData[f] # Undefined
     THEN updatedData[f] ELSE d[f]]

(* ------------------------------ attachments --------------------------- *)
NoFile == [present |-> FALSE, path |-> Undefined, filename |-> Undefined]

\* multer.diskStorage: filename Date.now() + "-" + originalname
DiskFile(now, originalname) ==
  LET name == ToString(now) \o "-" \o originalname
  IN  [present |-> TRUE, path |-> "uploads/" \o name, filename |-> name]

\* CloudinaryStorage: folder blog-images, format png, public_id
\* Date.now() + "-" + originalname; path is the secure URL, filename the
\* public id Cloudinary answers with
CloudFile(now, originalname) ==
  LET publicId == "blog-images/" \o ToString(now) \o "-" \o originalname
  IN  [present |-> TRUE,
       path |-> "https://res.cloudinary.com/demo/image/upload/v1/" \o publicId \o ".png",
       filename |-> publicId]

(* ------------------------------- state -------------------------------- *)
VARIABLES
  variant,    \* "disk" or "cloud": which of the file's two applications runs
  blogs,      \* the Blog collection: ObjectId -> document
  media,      \* the attachment backend: stored file names / public ids
  destroyed,  \* public ids for which cloudinary.uploader.destroy was called
  clock,      \* Date.now() as seen by the storage engine
  oids,       \* how many ObjectIds have been handed out
  req,        \* the requests in flight, one per slot
  deletedOk   \* ids for which DELETE answered 200 (history)

vars == <<variant, blogs, media, destroyed, clock, oids, req, deletedOk>>

Slots == 1..MaxReqs

NoQuery == [category |-> Undefined, subcategory |-> Undefined, status |-> Undefined]

Idle ==
  [op |-> "idle", pc |-> "idle", id |-> "", body |-> NoBody, query |-> NoQuery,
   file |-> NoFile, existing |-> {}, status |-> 0, payload |-> {},
   calls |-> <<>>, destroyOk |-> TRUE, writeOk |-> TRUE, afterDelete |-> FALSE,
   removed |-> {}]

Docs == {blogs[i] : i \in DOMAIN blogs}

\* Model.findById on a well-formed id: the document, or null (the empty set)
findById(id) == IF id \in DOMAIN blogs THEN {blogs[id]} ELSE {}

\* ObjectIds handed out plus the POSTs in flight that may still take one
Pending == oids + Cardinality({r \in Slots : req[r].op = "create" /\ req[r].pc # "done"})

\* Model.find(query): the documents equal to the filter on each field it names
Find(query) ==
  {d \in Docs : \A f \in DOMAIN query : query[f] # Undefined => d[f] = query[f]}

\* the public id a looked-up document holds
HandleOf(found) == (CHOOSE d \in found : TRUE).imagePublicId

TypeOK ==
  /\ variant \in {"disk", "cloud"}
  /\ clock \in 0..MaxUploads
  /\ oids \in 0..MaxPosts
  /\ \A r \in Slots : req[r].status \in {0, 200, 201, 400, 404, 500}


\* res.json() is the last statement of a handler's last step: a response is
\* out before any other handler runs again
Quiet == \A s \in Slots : req[s].pc # "done"

\* slot r is at pc, and no response is waiting to go out
Ready(r, pc) == req[r].pc = pc /\ Quiet

Init ==
  /\ variant \in {"disk", "cloud"}
  /\ blogs = <<>>
  /\ media = {}
  /\ destroyed = {}
  /\ clock = 0
  /\ oids = 0
  /\ req = [r \in Slots |-> Idle]
  /\ deletedOk = {}

(* ------------------------ disk variant (lines 1-111) ------------------ *)
\* GET /api/blogs: the filter built from req.query
QueryDisk(q) ==
  [NoQuery EXCEPT !.category =
     IF Truthy(q.category) /\ q.category # "all" THEN q.category ELSE Undefined]

GetBlogsDisk(r, q) ==
  /\ variant = "disk" /\ Ready(r, "idle")
  /\ req' = [req EXCEPT ![r] = [Idle EXCEPT !.op = "list", !.pc = "done",
                !.query = q, !.calls = <<"find">>, !.status = 200,
                !.payload = Find(QueryDisk(q))]]
  /\ UNCHANGED <<variant, blogs, media, destroyed, clock, oids, deletedOk>>

\* GET /api/blogs/:id: findById casts the id itself and throws on a malformed one
GetBlogByIdDisk(r, id) ==
  /\ variant = "disk" /\ Ready(r, "idle")
  /\ req' = [req EXCEPT ![r] = [Idle EXCEPT !.op = "get", !.pc = "done",
                !.id = id, !.calls = <<"findById">>,
                !.afterDelete = (id \in deletedOk),
                !.status = IF ~isValid(id) THEN 500
                           ELSE IF findById(id) = {} THEN 404 ELSE 200,
                !.payload = IF isValid(id) THEN findById(id) ELSE {}]]
  /\ UNCHANGED <<variant, blogs, media, destroyed, clock, oids, deletedOk>>

\* POST /api/blogs: multer stores the file, then the handler saves the document
PostBlogDisk(r, body, names, ok) ==
  /\ variant = "disk" /\ Ready(r, "idle")
  /\ Pending < MaxPosts
  /\ names # {} => clock < MaxUploads
  /\ LET file == IF names = {} THEN NoFile
                 ELSE DiskFile(clock + 1, CHOOSE n \in names : TRUE)
         imagePath == IF file.present THEN "/uploads/" \o file.filename ELSE Null
         newBlog == NewBlogDisk(Oid(oids + 1), body, imagePath)
         saved == ValidDoc("disk", newBlog) /\ ok
     IN  /\ media' = IF file.present THEN media \cup {file.filename} ELSE media
         /\ clock' = IF file.present THEN clock + 1 ELSE clock
         /\ blogs' = IF saved THEN (newBlog._id :> newBlog) @@ blogs ELSE blogs
         /\ oids' = IF saved THEN oids + 1 ELSE oids
         /\ req' = [req EXCEPT ![r] = [Idle EXCEPT !.op = "create", !.pc = "done",
                       !.body = body, !.file = file, !.writeOk = ok,
                       !.calls = (IF file.present THEN <<"upload">> ELSE <<>>) \o <<"save">>,
                       !.status = IF saved THEN 201 ELSE 500,
                       !.payload = IF saved THEN {newBlog} ELSE {}]]
  /\ UNCHANGED <<variant, destroyed, deletedOk>>

\* PUT /api/blogs/:id: multer stores the file (the handler never reads it),
\* then one findByIdAndUpdate with the body
PutBlogDisk(r, id, body, names, ok) ==
  /\ variant = "disk" /\ Ready(r, "idle")
  /\ names # {} => clock < MaxUploads
  /\ LET file == IF names = {} THEN NoFile
                 ELSE DiskFile(clock + 1, CHOOSE n \in names : TRUE)
         found == isValid(id) /\ ok /\ id \in DOMAIN blogs
         updatedBlog == ApplyUpdate("disk", blogs[id], body)
     IN  /\ media' = IF file.present THEN media \cup {file.filename} ELSE media
         /\ clock' = IF file.present THEN clock + 1 ELSE clock
         /\ blogs' = IF found THEN [blogs EXCEPT ![id] = updatedBlog] ELSE blogs
         /\ req' = [req EXCEPT ![r] = [Idle EXCEPT !.op = "update", !.pc = "done",
                       !.id = id, !.body = body, !.file = file, !.writeOk = ok,
                       !.existing = IF isValid(id) THEN findById(id) ELSE {},
                       !.calls = (IF file.present THEN <<"upload">> ELSE <<>>)
                                   \o <<"findByIdAndUpdate">>,
                       !.status = IF ~isValid(id) \/ ~ok THEN 500
                                  ELSE IF found THEN 200 ELSE 404,
                       !.payload = IF found THEN {updatedBlog} ELSE {}]]
  /\ UNCHANGED <<variant, destroyed, oids, deletedOk>>

\* DELETE /api/blogs/:id: one findByIdAndDelete
DeleteBlogDisk(r, id, ok) ==
  /\ variant = "disk" /\ Ready(r, "idle")
  /\ LET found == isValid(id) /\ ok /\ id \in DOMAIN blogs
     IN  /\ blogs' = IF found THEN [i \in DOMAIN blogs \ {id} |-> blogs[i]] ELSE blogs
         /\ deletedOk' = IF found THEN deletedOk \cup {id} ELSE deletedOk
         /\ req' = [req EXCEPT ![r] = [Idle EXCEPT !.op = "delete", !.pc = "done",
                       !.id = id, !.calls = <<"findByIdAndDelete">>, !.writeOk = ok,
                       !.existing = IF isValid(id) THEN findById(id) ELSE {},
                       !.removed = IF found THEN findById(id) ELSE {},
                       !.status = IF ~isValid(id) \/ ~ok THEN 500
                                  ELSE IF found THEN 200 ELSE 404]]
  /\ UNCHANGED <<variant, media, destroyed, clock, oids>>

(* --------------------- Cloudinary variant (lines 113-359) ------------- *)
\* GET /api/blogs: the filter built from req.query
QueryCloud(q) ==
  [category |-> IF Truthy(q.category) THEN q.category ELSE Undefined,
   subcategory |-> IF Truthy(q.subcategory) THEN q.subcategory ELSE Undefined,
   status |-> IF Truthy(q.status) THEN q.status ELSE Undefined]

GetBlogs(r, q) ==
  /\ variant = "cloud" /\ Ready(r, "idle")
  /\ req' = [req EXCEPT ![r] = [Idle EXCEPT !.op = "list", !.pc = "done",
                !.query = q, !.calls = <<"find">>, !.status = 200,
                !.payload = Find(QueryCloud(q))]]
  /\ UNCHANGED <<variant, blogs, media, destroyed, clock, oids, deletedOk>>

\* GET /api/blogs/:id: the id is validated before the store is asked
GetBlogById(r, id) ==
  /\ variant = "cloud" /\ Ready(r, "idle")
  /\ req' = [req EXCEPT ![r] =
       IF ~isValid(id)
       THEN [Idle EXCEPT !.op = "get", !.pc = "done", !.id = id, !.status = 400,
                         !.afterDelete = (id \in deletedOk)]
       ELSE [Idle EXCEPT !.op = "get", !.pc = "done", !.id = id,
                         !.calls = <<"findById">>,
                         !.afterDelete = (id \in deletedOk),
                         !.status = IF findById(id) = {} THEN 404 ELSE 200,
                         !.payload = findById(id)]]
  /\ UNCHANGED <<variant, blogs, media, destroyed, clock, oids, deletedOk>>

\* upload.single("image") in front of POST: the file, when the request has
\* one, is in Cloudinary before the handler runs
PostBlogUpload(r, body, names) ==
  /\ variant = "cloud" /\ Ready(r, "idle")
  /\ Pending < MaxPosts
  /\ names # {} => clock < MaxUploads
  /\ LET file == IF names = {} THEN NoFile
                 ELSE CloudFile(clock + 1, CHOOSE n \in names : TRUE)
     IN  /\ media' = IF file.present THEN media \cup {file.filename} ELSE media
         /\ clock' = IF file.present THEN clock + 1 ELSE clock
         /\ req' = [req EXCEPT ![r] = [Idle EXCEPT !.op = "create", !.pc = "write",
                       !.body = body, !.file = file,
                       !.calls = IF file.present THEN <<"upload">> ELSE <<>>]]
  /\ UNCHANGED <<variant, blogs, destroyed, oids, deletedOk>>

\* the public id a handler derives from req.file
ImagePublicId(file) ==
  IF Truthy(file.filename) THEN file.filename ELSE getPublicIdFromUrl(file.path)

\* POST /api/blogs handler: new Blog(...), save()
PostBlogSave(r, ok) ==
  /\ variant = "cloud" /\ req[r].op = "create" /\ Ready(r, "write")
  /\ LET rq == req[r]
         imagePath == IF rq.file.present THEN rq.file.path ELSE Null
         imagePublicId == IF rq.file.present THEN ImagePublicId(rq.file) ELSE Null
         newBlog == NewBlog(Oid(oids + 1), rq.body, imagePath, imagePublicId)
         saved == ValidDoc("cloud", newBlog) /\ ok
     IN  /\ blogs' = IF saved THEN (newBlog._id :> newBlog) @@ blogs ELSE blogs
         /\ oids' = IF saved THEN oids + 1 ELSE oids
         /\ req' = [req EXCEPT ![r] = [rq EXCEPT !.pc = "done",
                       !.calls = rq.calls \o <<"save">>, !.writeOk = ok,
                       !.status = IF saved THEN 201 ELSE 500,
                       !.payload = IF saved THEN {newBlog} ELSE {}]]
  /\ UNCHANGED <<variant, media, destroyed, clock, deletedOk>>

\* upload.single("image") in front of PUT
PutBlogUpload(r, id, body, names) ==
  /\ variant = "cloud" /\ Ready(r, "idle")
  /\ names # {} => clock < MaxUploads
  /\ LET file == IF names = {} THEN NoFile
                 ELSE CloudFile(clock + 1, CHOOSE n \in names : TRUE)
     IN  /\ media' = IF file.present THEN media \cup {file.filename} ELSE media
         /\ clock' = IF file.present THEN clock + 1 ELSE clock
         /\ req' = [req EXCEPT ![r] = [Idle EXCEPT !.op = "update", !.pc = "find",
                       !.id = id, !.body = body, !.file = file,
                       !.calls = IF file.present THEN <<"upload">> ELSE <<>>]]
  /\ UNCHANGED <<variant, blogs, destroyed, oids, deletedOk>>

\* PUT handler, after the lookup: is the old image to be deleted first?
PutNeedsDestroy(rq, existingBlog) ==
  rq.file.present /\ Truthy(HandleOf(existingBlog))

\* PUT handler up to its first await after the lookup: id check, findById, 404
PutBlogFind(r) ==
  /\ variant = "cloud" /\ req[r].op = "update" /\ Ready(r, "find")
  /\ LET rq == req[r]
         existingBlog == findById(rq.id)
     IN  req' = [req EXCEPT ![r] =
           IF ~isValid(rq.id) THEN [rq EXCEPT !.pc = "done", !.status = 400]
           ELSE IF existingBlog = {}
           THEN [rq EXCEPT !.pc = "done", !.status = 404,
                           !.calls = rq.calls \o <<"findById">>]
           ELSE [rq EXCEPT !.existing = existingBlog,
                           !.calls = rq.calls \o <<"findById">>,
                           !.pc = IF PutNeedsDestroy(rq, existingBlog)
                                  THEN "destroy" ELSE "write"]]
  /\ UNCHANGED <<variant, blogs, media, destroyed, clock, oids, deletedOk>>

\* deleteCloudinaryImage: one destroy call; an error is logged and swallowed
deleteCloudinaryImage(publicId, ok) ==
  IF ~Truthy(publicId) THEN UNCHANGED <<media, destroyed>>
  ELSE /\ destroyed' = destroyed \cup {publicId}
       /\ media' = IF ok THEN media \ {publicId} ELSE media

\* a faulty handler: a failed deletion of the image ends the request with a 500
AfterDestroyAborting(rq, ok) ==
  IF ok
  THEN [rq EXCEPT !.pc = "write", !.destroyOk = ok,
                  !.calls = rq.calls \o <<"destroy " \o HandleOf(rq.existing)>>]
  ELSE [rq EXCEPT !.pc = "done", !.status = 500, !.destroyOk = ok,
                  !.calls = rq.calls \o <<"destroy " \o HandleOf(rq.existing)>>]

\* where a handler goes once deleteCloudinaryImage has returned or failed
AfterDestroy(rq, ok) ==
  [rq EXCEPT !.pc = "write", !.destroyOk = ok,
             !.calls = rq.calls \o <<"destroy " \o HandleOf(rq.existing)>>]

\* PUT handler: await deleteCloudinaryImage(existingBlog.imagePublicId)
PutBlogDestroy(r, ok) ==
  /\ variant = "cloud" /\ req[r].op = "update" /\ Ready(r, "destroy")
  /\ deleteCloudinaryImage(HandleOf(req[r].existing), ok)
  /\ req' = [req EXCEPT ![r] = AfterDestroy(req[r], ok)]
  /\ UNCHANGED <<variant, blogs, clock, oids, deletedOk>>

\* PUT handler: req.body, with the new file's image fields written over it
UpdatedData(rq) ==
  IF rq.file.present
  THEN [rq.body EXCEPT !.image = rq.file.path,
                       !.imagePublicId = ImagePublicId(rq.file)]
  ELSE rq.body

\* PUT handler: findByIdAndUpdate(id, updatedData, {new: true}) and the 200
PutBlogUpdate(r, ok) ==
  /\ variant = "cloud" /\ req[r].op = "update" /\ Ready(r, "write")
  /\ LET rq == req[r]
         found == ok /\ rq.id \in DOMAIN blogs
         updatedBlog == ApplyUpdate("cloud", blogs[rq.id], UpdatedData(rq))
     IN  /\ blogs' = IF found THEN [blogs EXCEPT ![rq.id] = updatedBlog] ELSE blogs
         /\ req' = [req EXCEPT ![r] = [rq EXCEPT !.pc = "done",
                       !.calls = rq.calls \o <<"findByIdAndUpdate">>, !.writeOk = ok,
                       !.status = IF ok THEN 200 ELSE 500,
                       !.payload = IF found THEN {updatedBlog} ELSE {}]]
  /\ UNCHANGED <<variant, media, destroyed, clock, oids, deletedOk>>

\* a faulty DELETE handler: the image is never deleted
DeleteNeverDestroys(blogToDelete) == FALSE

\* DELETE handler, after the lookup: is the image to be deleted first?
DeleteNeedsDestroy(blogToDelete) == Truthy(HandleOf(blogToDelete))

\* DELETE handler up to its first await after the lookup
DeleteBlogFind(r, id) ==
  /\ variant = "cloud" /\ Ready(r, "idle")
  /\ LET blogToDelete == findById(id)
         rq == [Idle EXCEPT !.op = "delete", !.id = id]
     IN  req' = [req EXCEPT ![r] =
           IF ~isValid(id) THEN [rq EXCEPT !.pc = "done", !.status = 400]
           ELSE IF blogToDelete = {}
           THEN [rq EXCEPT !.pc = "done", !.status = 404, !.calls = <<"findById">>]
           ELSE [rq EXCEPT !.existing = blogToDelete, !.calls = <<"findById">>,
                           !.pc = IF DeleteNeedsDestroy(blogToDelete)
                                  THEN "destroy" ELSE "write"]]
  /\ UNCHANGED <<variant, blogs, media, destroyed, clock, oids, deletedOk>>

\* DELETE handler: await deleteCloudinaryImage(blogToDelete.imagePublicId)
DeleteBlogDestroy(r, ok) ==
  /\ variant = "cloud" /\ req[r].op = "delete" /\ Ready(r, "destroy")
  /\ deleteCloudinaryImage(HandleOf(req[r].existing), ok)
  /\ req' = [req EXCEPT ![r] = AfterDestroy(req[r], ok)]
  /\ UNCHANGED <<variant, blogs, clock, oids, deletedOk>>

\* DELETE handler: findByIdAndDelete(id) and the 200
DeleteBlogRemove(r, ok) ==
  /\ variant = "cloud" /\ req[r].op = "delete" /\ Ready(r, "write")
  /\ LET rq == req[r]
     IN  /\ blogs' = IF ok THEN [i \in DOMAIN blogs \ {rq.id} |-> blogs[i]] ELSE blogs
         /\ deletedOk' = IF ok THEN deletedOk \cup {rq.id} ELSE deletedOk
         /\ req' = [req EXCEPT ![r] = [rq EXCEPT !.pc = "done",
                       !.calls = rq.calls \o <<"findByIdAndDelete">>, !.writeOk = ok,
                       !.removed = IF ok THEN findById(rq.id) ELSE {},
                       !.status = IF ok THEN 200 ELSE 500]]
  /\ UNCHANGED <<variant, media, destroyed, clock, oids>>

\* the response has gone out and the request is over
Respond(r) ==
  /\ req[r].pc = "done"
  /\ req' = [req EXCEPT ![r] = Idle]
  /\ UNCHANGED <<variant, blogs, media, destroyed, clock, oids, deletedOk>>

(* ------------------------------- inputs ------------------------------- *)
\* a POST body with every required field
BaseBody ==
  [NoBody EXCEPT !.title = "A", !.content = "B", !.category = "tech",
                 !.subcategory = "Article", !.author = "Z"]

\* POST bodies: the full one, a second category, a required field left out or
\* empty, and a status outside the enum
CreateBodies ==
  {BaseBody,
   [BaseBody EXCEPT !.category = "news"],
   [BaseBody EXCEPT !.title = Undefined],
   [BaseBody EXCEPT !.author = ""],
   [BaseBody EXCEPT !.subcategory = Undefined],
   [BaseBody EXCEPT !.status = "Hot"]}

\* PUT bodies: no field, and one field each
UpdateBodies ==
  {NoBody,
   [NoBody EXCEPT !.title = ""],
   [NoBody EXCEPT !.status = "Hot"],
   [NoBody EXCEPT !.image = "x.png"]}

\* GET /api/blogs queries
Queries ==
  [category : {Undefined, "", "all", "tech", "news"},
   subcategory : {Undefined, "Article"},
   status : {Undefined}]

\* the request has no file, or one named a
FileNames == {{}, {"a"}}

(* -------------------- the API, one request at a time ------------------ *)
Next ==
  \E r \in {1} :
    \/ \E q \in Queries : GetBlogsDisk(r, q)
    \/ \E id \in IdInputs : GetBlogByIdDisk(r, id)
    \/ \E body \in CreateBodies, names \in FileNames, ok \in BOOLEAN :
         PostBlogDisk(r, body, names, ok)
    \/ \E id \in IdInputs, body \in UpdateBodies, names \in FileNames, ok \in BOOLEAN :
         PutBlogDisk(r, id, body, names, ok)
    \/ \E id \in IdInputs, ok \in BOOLEAN : DeleteBlogDisk(r, id, ok)
    \/ \E q \in Queries : GetBlogs(r, q)
    \/ \E id \in IdInputs : GetBlogById(r, id)
    \/ \E body \in CreateBodies, names \in FileNames : PostBlogUpload(r, body, names)
    \/ \E ok \in BOOLEAN : PostBlogSave(r, ok)
    \/ \E id \in IdInputs, body \in UpdateBodies, names \in FileNames :
         PutBlogUpload(r, id, body, names)
    \/ PutBlogFind(r)
    \/ \E ok \in BOOLEAN : PutBlogDestroy(r, ok)
    \/ \E ok \in BOOLEAN : PutBlogUpdate(r, ok)
    \/ \E id \in IdInputs : DeleteBlogFind(r, id)
    \/ \E ok \in BOOLEAN : DeleteBlogDestroy(r, ok)
    \/ \E ok \in BOOLEAN : DeleteBlogRemove(r, ok)
    \/ Respond(r)

Spec == Init /\ [][Next]_vars

(* ----------------------- concurrent requests --------------------------- *)
\* PUT bodies of the concurrent runs: none sets an image field
RaceBodies == {NoBody, [NoBody EXCEPT !.title = "A2"]}

\* the id the concurrent requests contend for
RaceIds == {Oid(1)}

NextRace ==
  \E r \in Slots :
    \/ \E id \in RaceIds : GetBlogByIdDisk(r, id)
    \/ \E names \in FileNames, ok \in BOOLEAN : PostBlogDisk(r, BaseBody, names, ok)
    \/ \E id \in RaceIds, body \in RaceBodies, names \in FileNames, ok \in BOOLEAN :
         PutBlogDisk(r, id, body, names, ok)
    \/ \E id \in RaceIds, ok \in BOOLEAN : DeleteBlogDisk(r, id, ok)
    \/ \E id \in RaceIds : GetBlogById(r, id)
    \/ \E names \in FileNames : PostBlogUpload(r, BaseBody, names)
    \/ \E ok \in BOOLEAN : PostBlogSave(r, ok)
    \/ \E id \in RaceIds, body \in RaceBodies, names \in FileNames :
         PutBlogUpload(r, id, body, names)
    \/ PutBlogFind(r)
    \/ \E ok \in BOOLEAN : PutBlogDestroy(r, ok)
    \/ \E ok \in BOOLEAN : PutBlogUpdate(r, ok)
    \/ \E id \in RaceIds : DeleteBlogFind(r, id)
    \/ \E ok \in BOOLEAN : DeleteBlogDestroy(r, ok)
    \/ \E ok \in BOOLEAN : DeleteBlogRemove(r, ok)
    \/ Respond(r)

\* the store after one POST of BaseBody with a file named a, made at time 0
SeededBlog(v) ==
  IF v = "disk"
  THEN NewBlogDisk(Oid(1), BaseBody, "/uploads/" \o DiskFile(0, "a").filename)
  ELSE NewBlog(Oid(1), BaseBody, CloudFile(0, "a").path,
               ImagePublicId(CloudFile(0, "a")))

SeededMedia(v) ==
  IF v = "disk" THEN {DiskFile(0, "a").filename} ELSE {CloudFile(0, "a").filename}

\* the concurrent runs start from the empty store, or from the store holding
\* one document with an image
InitRace ==
  /\ variant \in {"disk", "cloud"}
  /\ \/ blogs = <<>> /\ media = {} /\ oids = 0
     \/ /\ blogs = (Oid(1) :> SeededBlog(variant))
        /\ media = SeededMedia(variant)
        /\ oids = 1
  /\ destroyed = {}
  /\ clock = 0
  /\ req = [r \in Slots |-> Idle]
  /\ deletedOk = {}

SpecRace == InitRace /\ [][NextRace]_vars

(* ------------------------------ properties ---------------------------- *)
DocOf(found) == CHOOSE d \in found : TRUE

Issued(rq, call) == \E i \in 1..Len(rq.calls) : rq.calls[i] = call

StoreCalls == {"find", "findById", "save", "findByIdAndUpdate", "findByIdAndDelete"}

\* C1: a POST whose body lacks a required field is answered with a client
\* error, inserts no document and has written no attachment.
C1_CreateMissingFieldRejected ==
  \A r \in Slots :
    (/\ req[r].op = "create" /\ req[r].pc = "done"
     /\ \E f \in RequiredPaths(variant) : req[r].body[f] = Undefined)
    => /\ req[r].status \in 400..499
       /\ req[r].payload = {}
       /\ ~Issued(req[r], "upload")

\* C2: a GET with a malformed id is answered 400 and asks the document store
\* nothing.
C2_GetInvalidIdIs400 ==
  \A r \in Slots :
    (req[r].op = "get" /\ req[r].pc = "done" /\ ~isValid(req[r].id))
    => /\ req[r].status = 400
       /\ \A i \in 1..Len(req[r].calls) : req[r].calls[i] \notin StoreCalls

\* C3: a PUT on a well-formed id whose lookup found no document is answered
\* 404, and every 200 of a PUT carries the updated document, whatever a
\* concurrent DELETE of the same id does.
C3_UpdateNotFoundOrUpdatedPost ==
  \A r \in Slots :
    (req[r].op = "update" /\ req[r].pc = "done")
    => /\ (isValid(req[r].id) /\ req[r].existing = {} /\ req[r].writeOk)
            => req[r].status = 404
       /\ req[r].status = 200 => req[r].payload # {}

\* a PUT of the Cloudinary variant that brought a file and whose lookup found
\* a document holding a public id
ReplacesImage(rq) ==
  /\ variant = "cloud" /\ rq.op = "update" /\ rq.file.present
  /\ rq.existing # {} /\ Truthy(HandleOf(rq.existing))

\* C4: a PUT with a new file on a document holding an old public id asks for
\* that id's deletion exactly once, and before the record write; the written
\* document carries the new file's URL and public id; and whether the deletion
\* succeeded changes neither the write nor the response (500 only when the
\* store rejects the write).
C4_UpdateReplacesAttachment ==
  \A r \in Slots :
    ReplacesImage(req[r]) =>
      LET rq == req[r]
          lookedUp == <<"upload", "findById">>
          asked == <<"destroy " \o HandleOf(rq.existing)>>
      IN  /\ rq.pc = "destroy" => rq.calls = lookedUp
          /\ rq.pc = "write" =>
               rq.calls = lookedUp \o asked /\ HandleOf(rq.existing) \in destroyed
          /\ rq.pc = "done" =>
               /\ rq.calls = lookedUp \o asked \o <<"findByIdAndUpdate">>
               /\ rq.status = IF rq.writeOk THEN 200 ELSE 500
               /\ rq.payload # {} =>
                    /\ DocOf(rq.payload).image = rq.file.path
                    /\ DocOf(rq.payload).imagePublicId = rq.file.filename
                    /\ blogs[rq.id] = DocOf(rq.payload)
               /\ (rq.writeOk /\ rq.id \in DOMAIN blogs) => rq.payload # {}

\* C4 witness: the old image's deletion failed, and the PUT still answered 200
\* with the new image written
C4_Witness ==
  \E r \in Slots :
    /\ ReplacesImage(req[r]) /\ req[r].pc = "done" /\ ~req[r].destroyOk
    /\ req[r].status = 200 /\ req[r].payload # {}
    /\ DocOf(req[r].payload).image = req[r].file.path
    /\ HandleOf(req[r].existing) \in media

Supplied(rq) ==
  {f \in BodyFields : rq.body[f] # Undefined}
    \cup (IF variant = "cloud" /\ rq.file.present THEN {"image", "imagePublicId"} ELSE {})

\* C6: a step changes a field of a stored document only if it is the write of
\* a PUT addressed to that document whose request supplies that field: omitted
\* fields and _id keep their values, no other document changes, and the write
\* of a PUT neither adds nor removes a document.
C6_UpdateChangesOnlySuppliedFields ==
  [][\A id \in DOMAIN blogs :
       /\ \A s \in Slots :
            (req[s].op = "update" /\ req[s].pc # "done" /\ req'[s].pc = "done")
            => DOMAIN blogs' = DOMAIN blogs
       /\ id \in DOMAIN blogs' =>
            \A f \in DOMAIN blogs[id] :
              blogs'[id][f] # blogs[id][f] =>
                \E r \in Slots :
                  /\ req'[r].op = "update" /\ req'[r].pc = "done" /\ req[r].pc # "done"
                  /\ req'[r].id = id /\ req'[r].status = 200
                  /\ f \in Supplied(req'[r])
                  /\ req'[r].payload = {blogs'[id]}]_vars

\* C6 witness: a PUT has changed one field of one of two stored documents
C6_Witness ==
  \E r \in Slots :
    /\ req[r].op = "update" /\ req[r].pc = "done" /\ req[r].status = 200
    /\ Cardinality(Supplied(req[r])) = 1
    /\ req[r].existing # {} /\ req[r].payload # {}
    /\ req[r].payload # req[r].existing
    /\ Cardinality(DOMAIN blogs) = 2

\* C7: GET /api/blogs answers with exactly the stored documents that match the
\* category (none asked for when the parameter is absent, empty or "all") and
\* the other filters given, a filter being one on a path of the variant's schema.
C7_ListFiltersByCategory ==
  \A r \in Slots :
    (req[r].op = "list" /\ req[r].pc = "done") =>
      LET q == req[r].query
      IN  req[r].payload =
            {d \in Docs :
               /\ (Truthy(q.category) /\ q.category # "all") => d.category = q.category
               /\ \A f \in {"subcategory", "status"} \cap SchemaPaths(variant) :
                    Truthy(q[f]) => d[f] = q[f]}

\* C8: in the Cloudinary variant every stored document has image and
\* imagePublicId both set or both unset.
C8_ImageAndHandleTogether ==
  variant = "cloud" =>
    \A d \in Docs : Truthy(d.image) <=> Truthy(d.imagePublicId)

\* C9: in the Cloudinary variant every stored document has a status of the
\* enum and non-empty title, content, category and author, and a document
\* created without a status has status None.
C9_StoredPostsValid ==
  variant = "cloud" =>
    /\ \A d \in Docs :
         /\ d.status \in StatusEnum
         /\ \A f \in {"title", "content", "category", "author"} : Truthy(d[f])
    /\ \A r \in Slots :
         (/\ req[r].op = "create" /\ req[r].pc = "done" /\ req[r].status = 201
          /\ ~Truthy(req[r].body.status))
         => DocOf(req[r].payload).status = "None"

\* C10: no stored document holds a public id whose deletion has been asked
\* for.  Stated for the states with no request in flight, where a handler
\* that asks for the deletion before its write has had its write answered.
C10_NoStoredHandleDestroyed ==
  (variant = "cloud" /\ \A r \in Slots : req[r].pc = "idle") =>
    \A d \in Docs : Truthy(d.imagePublicId) => d.imagePublicId \notin destroyed

=============================================================================
